---- MODULE Spec2Model ----
(***************************************************************************)
(* Model of the Lua language server (server/src/server.ts): the per-file   *)
(* index luaFileDict, its changed flag, the AST walk parseNode, the        *)
(* position lookup selectIdent, the resolver searchIdent and the handlers  *)
(* registered on the connection.                                           *)
(***************************************************************************)
EXTENDS Integers, Sequences, FiniteSets, TLC

VARIABLES
    initialized,   \* onInitialize has run
    documents,     \* TextDocuments manager: uri -> text of the open documents
    luaFileDict,   \* uri -> LuaFileInfo (own keys only)
    keyOrder,      \* insertion order of the keys of luaFileDict (for..in order)
    latest,        \* history: uri -> last content handed to the server for it
    surplus,       \* history: uri -> number of top-level parseNode runs minus
                   \*          number of changed: true -> false steps
    resp,          \* outcome of the last handler
    probe          \* outcome of the last direct call of checkRange or parseNode

vars == <<initialized, documents, luaFileDict, keyOrder, latest, surplus, resp, probe>>

----------------------------------------------------------------------------
(* Bounds *)

\* largest difference between walks and clean transitions that is followed
MaxSurplus == 2
\* cursor columns tried by go-to-definition
MaxChar == 2

----------------------------------------------------------------------------
(* Inputs *)

UriA == "file:///a.lua"
UriB == "file:///b.lua"
Uris == {UriA, UriB}

TextBad == "function f("
TextDeclCall == "function f() end\nf(g)"
TextDup == "function f() end\nfunction f() end"
TextProto == "constructor(function() g() end)\nfunction a.b() end"

Texts == {TextBad, TextDeclCall, TextDup, TextProto}

Lines == 0 .. 1
Chars == 0 .. MaxChar
Positions == [line : Lines, character : Chars]
NoPos == [line |-> 0, character |-> 0]

----------------------------------------------------------------------------
(* JavaScript values *)

Null == [type |-> "null"]
Undefined == [type |-> "undefined"]

\* members every plain object inherits from Object.prototype
ObjectPrototypeKeys == {"constructor"}
ObjectPrototypeMember == [type |-> "function"]

\* obj[key] on an object created by {}
GetProperty(obj, key) ==
    IF key \in DOMAIN obj THEN obj[key]
    ELSE IF key \in ObjectPrototypeKeys THEN ObjectPrototypeMember
    ELSE Undefined

\* the value undefined where a name is expected; no Lua identifier has this spelling
UndefinedName == "<undefined>"

\* the key an assignment obj[value] = ... uses: String(value)
PropertyKey(value) == IF value = UndefinedName THEN "undefined" ELSE value

\* node.name
GetName(node) == IF "name" \in DOMAIN node THEN node.name ELSE UndefinedName

\* symbol.location
GetLocation(symbol) ==
    IF "location" \in DOMAIN symbol THEN symbol.location ELSE Undefined

\* value != null
NotNullish(value) ==
    ~ ("type" \in DOMAIN value /\ value.type \in {"null", "undefined"})

----------------------------------------------------------------------------
(* The parser collaborator: luaparse with {comments:false, locations:true} *)

Loc(sl, sc, el, ec) ==
    [start |-> [line |-> sl, column |-> sc], end |-> [line |-> el, column |-> ec]]

IdentifierNode(name, loc) ==
    [type |-> "Identifier", name |-> name, loc |-> loc]

FunctionNode(identifier, body, loc) ==
    [type |-> "FunctionDeclaration", identifier |-> identifier, body |-> body, loc |-> loc]

CallStatementNode(expression, loc) ==
    [type |-> "CallStatement", expression |-> expression, loc |-> loc]

CallExpressionNode(base, arguments, loc) ==
    [type |-> "CallExpression", base |-> base, arguments |-> arguments, loc |-> loc]

MemberExpressionNode(base, indexer, identifier, loc) ==
    [type |-> "MemberExpression", indexer |-> indexer, identifier |-> identifier,
     base |-> base, loc |-> loc]

ChunkNode(body, loc) ==
    [type |-> "Chunk", body |-> body, loc |-> loc]

ParseError == [type |-> "ParseError"]

Call(base, arguments, loc) ==
    CallStatementNode(CallExpressionNode(base, arguments, loc), loc)

parse(text) ==
    CASE text = TextBad -> ParseError
      [] text = TextDeclCall ->
            ChunkNode(<<FunctionNode(IdentifierNode("f", Loc(1, 9, 1, 10)), <<>>,
                                     Loc(1, 0, 1, 16)),
                        Call(IdentifierNode("f", Loc(2, 0, 2, 1)),
                             <<IdentifierNode("g", Loc(2, 2, 2, 3))>>,
                             Loc(2, 0, 2, 4))>>,
                      Loc(1, 0, 2, 4))
      [] text = TextDup ->
            ChunkNode(<<FunctionNode(IdentifierNode("f", Loc(1, 9, 1, 10)), <<>>,
                                     Loc(1, 0, 1, 16)),
                        FunctionNode(IdentifierNode("f", Loc(2, 9, 2, 10)), <<>>,
                                     Loc(2, 0, 2, 16))>>,
                      Loc(1, 0, 2, 16))
      [] text = TextProto ->
            ChunkNode(<<Call(IdentifierNode("constructor", Loc(1, 0, 1, 11)),
                             <<FunctionNode(Null,
                                  <<Call(IdentifierNode("g", Loc(1, 23, 1, 24)),
                                         <<>>, Loc(1, 23, 1, 26))>>,
                                  Loc(1, 12, 1, 30))>>,
                             Loc(1, 0, 1, 31)),
                        FunctionNode(MemberExpressionNode(IdentifierNode("a", Loc(2, 9, 2, 10)),
                                        ".", IdentifierNode("b", Loc(2, 11, 2, 12)),
                                        Loc(2, 9, 2, 12)),
                                     <<>>, Loc(2, 0, 2, 18))>>,
                      Loc(1, 0, 2, 18))

----------------------------------------------------------------------------
(* LuaFileInfo *)

EmptyDict == [n \in {} |-> Null]

LuaFileInfo(uri) ==
    [uri |-> uri, changed |-> TRUE, identifiers |-> <<>>,
     symbolList |-> <<>>, symbolDict |-> EmptyDict]

\* cleanSymbol that keeps the old artifacts
cleanSymbolKept(luaFile) == luaFile

cleanSymbol(luaFile) ==
    [luaFile EXCEPT !.identifiers = <<>>, !.symbolList = <<>>, !.symbolDict = EmptyDict]

insertSymbol(luaFile, symbol) ==
    [luaFile EXCEPT
        !.symbolList = Append(@, symbol),
        !.symbolDict = [n \in DOMAIN @ \cup {PropertyKey(symbol.name)} |->
                           IF n = PropertyKey(symbol.name) THEN symbol ELSE @[n]]]

\* SymbolInformation.create(name, kind, range, uri)
SymbolInformationCreate(name, kind, range, uri) ==
    [name |-> name, kind |-> kind, location |-> [uri |-> uri, range |-> range]]

SymbolKindFunction == 12

----------------------------------------------------------------------------
(* The AST walk *)

getRange(node) ==
    [start |-> [line |-> node.loc.start.line - 1, character |-> node.loc.start.column],
     end |-> [line |-> node.loc.end.line - 1, character |-> node.loc.end.column]]

\* a walk that visits the arguments of a call before its base
CallChildrenArgumentsFirst(node) ==
    (IF "arguments" \in DOMAIN node THEN node.arguments ELSE <<>>) \o <<node.base>>

\* lines 170-175: the children of a call expression in the order they are walked
CallChildren(node) ==
    <<node.base>> \o (IF "arguments" \in DOMAIN node THEN node.arguments ELSE <<>>)

RECURSIVE parseNode(_, _, _)
RECURSIVE parseNodes(_, _, _)

\* the for loops of parseNode: the walk of each node of a list in order
parseNodes(luaFile, parents, nodes) ==
    IF nodes = <<>> THEN luaFile
    ELSE parseNodes(parseNode(luaFile, parents, Head(nodes)), parents, Tail(nodes))

parseNode(luaFile, parents, node) ==
    CASE node.type = "Identifier" ->
            [luaFile EXCEPT !.identifiers =
                Append(@, [base |-> "", name |-> node.name, range |-> getRange(node)])]
      [] node.type = "FunctionDeclaration" ->
            LET declared ==
                    IF NotNullish(node.identifier)
                    THEN insertSymbol(luaFile,
                            SymbolInformationCreate(GetName(node.identifier), SymbolKindFunction,
                                                    getRange(node), luaFile.uri))
                    ELSE luaFile
            IN IF "body" \in DOMAIN node
               THEN parseNodes(declared, <<node>> \o parents, node.body)
               ELSE declared
      [] node.type = "CallStatement" ->
            parseNode(luaFile, parents, node.expression)
      [] node.type = "CallExpression" ->
            parseNodes(luaFile, parents, CallChildren(node))
      [] OTHER ->
            LET named ==
                    IF "identifier" \in DOMAIN node /\ NotNullish(node.identifier)
                    THEN parseNode(luaFile, parents, node.identifier)
                    ELSE luaFile
            IN IF "body" \in DOMAIN node
               THEN parseNodes(named, parents, node.body)
               ELSE named

----------------------------------------------------------------------------
(* refreshFile *)

\* a refreshFile that rebuilds whatever the flag says
NeedsRefreshAlways(luaFile) == TRUE

\* line 127: the test that decides whether the file is rebuilt
NeedsRefresh(luaFile) == luaFile.changed

\* a refreshFile that clears the flag before it parses
AfterParseErrorCleared(cleaned) == [cleaned EXCEPT !.changed = FALSE]

\* the file when parser.parse throws at line 129: cleanSymbol has run, line 131 has not
AfterParseError(cleaned) == cleaned

\* a rebuild that forgets to clear the flag
AfterWalkFlagKept(cleaned, ast) == parseNode(cleaned, <<>>, ast)

\* lines 130-131: the walk of the tree, then the flag is cleared
AfterWalk(cleaned, ast) ==
    [parseNode(cleaned, <<>>, ast) EXCEPT !.changed = FALSE]

\* a rebuild whose occurrence array is shared by every LuaFileInfo
StoreFileShared(dict, uri, luaFile) ==
    [g \in DOMAIN dict |->
        IF g = uri THEN luaFile
        ELSE [dict[g] EXCEPT !.identifiers = luaFile.identifiers]]

\* lines 121-131 write through luaFile, the entry of luaFileDict under uri
StoreFile(dict, uri, luaFile) == [dict EXCEPT ![uri] = luaFile]

\* the value of luaFileDict, its key order and what happened, after
\* refreshFile(uri, content) ran on (dict, order)
refreshFile(dict, order, uri, content) ==
    LET known == uri \in DOMAIN dict
        dict1 == IF known THEN dict ELSE dict @@ (uri :> LuaFileInfo(uri))
        order1 == IF known THEN order ELSE Append(order, uri)
        luaFile == dict1[uri]
        cleaned == cleanSymbol(luaFile)
        ast == parse(content)
    IN IF NeedsRefresh(luaFile)
       THEN IF ast.type = "ParseError"
            THEN [dict |-> StoreFile(dict1, uri, AfterParseError(cleaned)),
                  order |-> order1, threw |-> TRUE, walked |-> FALSE]
            ELSE [dict |-> StoreFile(dict1, uri, AfterWalk(cleaned, ast)),
                  order |-> order1, threw |-> FALSE, walked |-> TRUE]
       ELSE [dict |-> dict1, order |-> order1, threw |-> FALSE, walked |-> FALSE]

----------------------------------------------------------------------------
(* Position lookup and resolver *)

\* checkRange with an exclusive end column
checkRangeExclusiveEnd(range, line, character) ==
    IF line < range.start.line \/ line > range.end.line THEN FALSE
    ELSE IF line = range.start.line /\ character < range.start.character THEN FALSE
    ELSE IF line = range.end.line /\ character >= range.end.character THEN FALSE
    ELSE TRUE

checkRange(range, line, character) ==
    IF line < range.start.line \/ line > range.end.line THEN FALSE
    ELSE IF line = range.start.line /\ character < range.start.character THEN FALSE
    ELSE IF line = range.end.line /\ character > range.end.character THEN FALSE
    ELSE TRUE

RECURSIVE selectFrom(_, _, _, _)
\* the loop of selectIdent from index i on
selectFrom(identifiers, i, line, character) ==
    IF i > Len(identifiers) THEN Null
    ELSE IF checkRange(identifiers[i].range, line, character) THEN identifiers[i]
    ELSE selectFrom(identifiers, i + 1, line, character)

selectIdent(dict, uri, line, character) ==
    selectFrom(dict[uri].identifiers, 1, line, character)

RECURSIVE searchFrom(_, _, _, _)
\* the for..in loop of searchIdent from the i-th key on
searchFrom(dict, order, i, identifier) ==
    IF i > Len(order) THEN <<>>
    ELSE LET symbol == GetProperty(dict[order[i]].symbolDict, identifier.name)
             rest == searchFrom(dict, order, i + 1, identifier)
         IN IF NotNullish(symbol) THEN <<GetLocation(symbol)>> \o rest ELSE rest

searchIdent(dict, order, identifier) ==
    searchFrom(dict, order, 1, identifier)

----------------------------------------------------------------------------
(* State *)

FileState(dict, uri) ==
    IF uri \notin DOMAIN dict THEN "absent"
    ELSE IF dict[uri].changed THEN "dirty" ELSE "clean"

\* 1 when the file's flag went from changed (or no entry) to not changed
BecameClean(dict, dict2, uri) ==
    IF FileState(dict, uri) # "clean" /\ FileState(dict2, uri) = "clean" THEN 1 ELSE 0

Response(op, uri, pos, before, fault, value, name, batch) ==
    [op |-> op, uri |-> uri, pos |-> pos, before |-> before, fault |-> fault,
     value |-> value, name |-> name, batch |-> batch]

EmptyMap == [u \in {} |-> ""]

Init ==
    /\ initialized = FALSE
    /\ documents = EmptyMap
    /\ luaFileDict = [u \in {} |-> LuaFileInfo(u)]
    /\ keyOrder = <<>>
    /\ latest = EmptyMap
    /\ surplus = [u \in Uris |-> 0]
    /\ resp = Response("none", "", NoPos, "absent", "none", <<>>, "", <<>>)
    /\ probe = [op |-> "none"]

----------------------------------------------------------------------------
(* onInitialize: refreshPath over the workspace root *)

\* the listings a directory scan can deliver: distinct lua files with their content
Batches ==
    {<<>>}
    \cup {<<[uri |-> u, content |-> t]>> : u \in Uris, t \in Texts}
    \cup {<<[uri |-> u, content |-> t], [uri |-> v, content |-> s]>> :
            u \in Uris, v \in Uris, t \in Texts, s \in Texts}

ScanBatches == {b \in Batches : Len(b) = 2 => b[1].uri # b[2].uri}

RECURSIVE refreshPath(_, _, _, _)
\* the loop of refreshPath from the i-th file on; it ends at the first exception
refreshPath(dict, order, batch, i) ==
    IF i > Len(batch)
    THEN [dict |-> dict, order |-> order, threw |-> FALSE, walked |-> <<>>, read |-> i - 1]
    ELSE LET one == refreshFile(dict, order, batch[i].uri, batch[i].content)
         IN IF one.threw
            THEN [dict |-> one.dict, order |-> one.order, threw |-> TRUE,
                  walked |-> <<>>, read |-> i]
            ELSE LET rest == refreshPath(one.dict, one.order, batch, i + 1)
                 IN [rest EXCEPT !.walked =
                        (IF one.walked THEN <<batch[i].uri>> ELSE <<>>) \o @]

Count(seq, x) == Cardinality({i \in 1 .. Len(seq) : seq[i] = x})

Initialize(batch) ==
    /\ ~ initialized
    /\ initialized' = TRUE
    /\ LET out == refreshPath(luaFileDict, keyOrder, batch, 1)
       IN /\ luaFileDict' = out.dict
          /\ keyOrder' = out.order
          /\ latest' = [u \in DOMAIN latest \cup {batch[i].uri : i \in 1 .. out.read} |->
                          IF \E i \in 1 .. out.read : batch[i].uri = u
                          THEN batch[CHOOSE i \in 1 .. out.read : batch[i].uri = u].content
                          ELSE latest[u]]
          /\ surplus' = [u \in Uris |-> surplus[u] + Count(out.walked, u)
                                              - BecameClean(luaFileDict, out.dict, u)]
          /\ resp' = IF out.threw
                     THEN Response("initialize", batch[out.read].uri, NoPos, "absent",
                                   "parse", <<>>, "", batch)
                     ELSE Response("initialize", "", NoPos, "absent", "none", <<>>, "", batch)
    /\ UNCHANGED <<documents, probe>>

----------------------------------------------------------------------------
(* documents.onDidChangeContent: fired when a document is opened or edited *)

\* a change handler that forgets to set the flag
MarkChangedSkipped(luaFile) == luaFile

\* line 88
MarkChanged(luaFile) == [luaFile EXCEPT !.changed = TRUE]

\* a change handler that creates the entry it does not find
onDidChangeContentCreating(dict, uri) ==
    IF uri \in DOMAIN dict
    THEN [dict EXCEPT ![uri] = MarkChanged(@)]
    ELSE dict @@ (uri :> LuaFileInfo(uri))

\* lines 85-90: luaFileDict after the handler ran for uri
onDidChangeContent(dict, uri) ==
    IF uri \in DOMAIN dict
    THEN [dict EXCEPT ![uri] = MarkChanged(@)]
    ELSE dict

DidChangeContent(uri, text) ==
    /\ initialized
    /\ documents' = [u \in DOMAIN documents \cup {uri} |-> IF u = uri THEN text ELSE documents[u]]
    /\ latest' = [u \in DOMAIN latest \cup {uri} |-> IF u = uri THEN text ELSE latest[u]]
    /\ luaFileDict' = onDidChangeContent(luaFileDict, uri)
    /\ resp' = Response("change", uri, NoPos, FileState(luaFileDict, uri), "none", <<>>, "", <<>>)
    /\ UNCHANGED <<initialized, keyOrder, surplus, probe>>

\* a close handler that evicts the File Index of the closed document
DidCloseEvicting(uri) ==
    /\ initialized
    /\ uri \in DOMAIN documents
    /\ documents' = [u \in DOMAIN documents \ {uri} |-> documents[u]]
    /\ luaFileDict' = [u \in DOMAIN luaFileDict \ {uri} |-> luaFileDict[u]]
    /\ keyOrder' = SelectSeq(keyOrder, LAMBDA u : u # uri)
    /\ resp' = Response("close", uri, NoPos, FileState(luaFileDict, uri), "none", <<>>, "", <<>>)
    /\ UNCHANGED <<initialized, latest, surplus, probe>>

\* the document manager drops a closed document; the server registers no handler
DidClose(uri) ==
    /\ initialized
    /\ uri \in DOMAIN documents
    /\ documents' = [u \in DOMAIN documents \ {uri} |-> documents[u]]
    /\ resp' = Response("close", uri, NoPos, FileState(luaFileDict, uri), "none", <<>>, "", <<>>)
    /\ UNCHANGED <<initialized, luaFileDict, keyOrder, latest, surplus, probe>>

----------------------------------------------------------------------------
(* The handlers that call refreshFile(uri, documents.get(uri).getText()) *)

\* documents.get(uri) is undefined: the handler throws before refreshFile
NoDocument(op, uri, pos) ==
    /\ uri \notin DOMAIN documents
    /\ resp' = Response(op, uri, pos, FileState(luaFileDict, uri), "nodoc", <<>>, "", <<>>)
    /\ UNCHANGED <<initialized, documents, luaFileDict, keyOrder, latest, surplus, probe>>

\* the state after refreshFile, with the history counter
Refreshed(uri, out) ==
    /\ surplus[uri] \in (-MaxSurplus + 1) .. (MaxSurplus - 1)
    /\ luaFileDict' = out.dict
    /\ keyOrder' = out.order
    /\ surplus' = [surplus EXCEPT ![uri] = @ + (IF out.walked THEN 1 ELSE 0)
                                              - BecameClean(luaFileDict, out.dict, uri)]
    /\ UNCHANGED <<initialized, documents, latest, probe>>

DocumentSymbol(uri) ==
    /\ initialized
    /\ \/ NoDocument("list", uri, NoPos)
       \/ /\ uri \in DOMAIN documents
          /\ LET out == refreshFile(luaFileDict, keyOrder, uri, documents[uri])
             IN /\ Refreshed(uri, out)
                /\ resp' = IF out.threw
                           THEN Response("list", uri, NoPos, FileState(luaFileDict, uri),
                                         "parse", <<>>, "", <<>>)
                           ELSE Response("list", uri, NoPos, FileState(luaFileDict, uri),
                                         "none", out.dict[uri].symbolList, "", <<>>)

Definition(uri, pos) ==
    /\ initialized
    /\ \/ NoDocument("def", uri, pos)
       \/ /\ uri \in DOMAIN documents
          /\ LET out == refreshFile(luaFileDict, keyOrder, uri, documents[uri])
                 identifier == selectIdent(out.dict, uri, pos.line, pos.character)
             IN /\ Refreshed(uri, out)
                /\ resp' = IF out.threw
                           THEN Response("def", uri, pos, FileState(luaFileDict, uri),
                                         "parse", <<>>, "", <<>>)
                           ELSE IF ~ NotNullish(identifier)
                           THEN Response("def", uri, pos, FileState(luaFileDict, uri),
                                         "none", <<>>, "", <<>>)
                           ELSE Response("def", uri, pos, FileState(luaFileDict, uri), "none",
                                         searchIdent(out.dict, out.order, identifier),
                                         identifier.name, <<>>)

DidSave(uri) ==
    /\ initialized
    /\ \/ NoDocument("save", uri, NoPos)
       \/ /\ uri \in DOMAIN documents
          /\ LET out == refreshFile(luaFileDict, keyOrder, uri, documents[uri])
             IN /\ Refreshed(uri, out)
                /\ resp' = Response("save", uri, NoPos, FileState(luaFileDict, uri),
                                    IF out.threw THEN "parse" ELSE "none", <<>>, "", <<>>)

----------------------------------------------------------------------------

Next ==
    \/ \E batch \in ScanBatches : Initialize(batch)
    \/ \E uri \in Uris, text \in Texts : DidChangeContent(uri, text)
    \/ \E uri \in Uris : DidClose(uri)
    \/ \E uri \in Uris : DocumentSymbol(uri)
    \/ \E uri \in Uris, pos \in Positions : Definition(uri, pos)
    \/ \E uri \in Uris : DidSave(uri)

Spec == Init /\ [][Next]_vars

----------------------------------------------------------------------------
(* checkRange and parseNode called directly on bounded inputs *)

\* largest line and column of the ranges and positions given to checkRange
MaxCoord == 2
\* largest number of arguments of a call expression given to parseNode
MaxArgs == 2
\* deepest nesting of call expressions in the base of a call
MaxDepth == 2

Coords == 0 .. MaxCoord
ProbePositions == [line : Coords, character : Coords]
ProbeRanges == [start : ProbePositions, end : ProbePositions]

ProbeNames == {"f", "g"}
ProbeIdentifiers == {IdentifierNode(n, Loc(1, 0, 1, 1)) : n \in ProbeNames}
ArgumentLists == UNION {[1 .. k -> ProbeIdentifiers] : k \in 0 .. MaxArgs}

RECURSIVE CallNodes(_)
\* identifiers and the calls whose base nests at most depth calls
CallNodes(depth) ==
    IF depth = 0 THEN ProbeIdentifiers
    ELSE CallNodes(depth - 1)
         \cup {CallExpressionNode(b, a, Loc(1, 0, 1, 1)) :
                 b \in CallNodes(depth - 1), a \in ArgumentLists}

\* a direct call leaves the server state alone
ProbeFrame == UNCHANGED <<initialized, documents, luaFileDict, keyOrder, latest, surplus, resp>>

ProbeCheckRange(range, pos) ==
    /\ probe' = [op |-> "checkRange", range |-> range, pos |-> pos,
                 result |-> checkRange(range, pos.line, pos.character)]
    /\ ProbeFrame

ProbeWalk(node) ==
    /\ probe' = [op |-> "walk", node |-> node,
                 identifiers |-> parseNode(LuaFileInfo(UriA), <<>>, node).identifiers]
    /\ ProbeFrame

\* one direct call, made on the freshly loaded module
NextPure ==
    \/ probe.op = "none" /\ \E range \in ProbeRanges, pos \in ProbePositions :
                                ProbeCheckRange(range, pos)
    \/ probe.op = "none" /\ \E node \in CallNodes(MaxDepth) : ProbeWalk(node)

SpecPure == Init /\ [][NextPure]_vars

----------------------------------------------------------------------------
(* Properties *)

\* what a rebuild of a fresh LuaFileInfo from this text holds
Walk(uri, text) == parseNode(LuaFileInfo(uri), <<>>, parse(text))

Parses(text) == parse(text).type # "ParseError"

SameArtifacts(luaFile, other) ==
    /\ luaFile.identifiers = other.identifiers
    /\ luaFile.symbolList = other.symbolList
    /\ luaFile.symbolDict = other.symbolDict

PositionLeq(p, q) ==
    p.line < q.line \/ (p.line = q.line /\ p.character <= q.character)

\* closed-interval containment, lexicographic on (line, character)
Contains(range, pos) == PositionLeq(range.start, pos) /\ PositionLeq(pos, range.end)

Covering(identifiers, pos) ==
    {i \in 1 .. Len(identifiers) : Contains(identifiers[i].range, pos)}

Least(S) == CHOOSE i \in S : \A j \in S : i <= j

QueryOps == {"list", "def"}
RefreshOps == {"list", "def", "save"}

\* C1: a File Index whose flag is Clean holds exactly the occurrences, the symbol
\* list and the symbol table of the walk of the latest content of its document.
C1_CleanHoldsLatestWalk ==
    \A u \in DOMAIN luaFileDict :
        ~ luaFileDict[u].changed =>
            /\ u \in DOMAIN latest
            /\ Parses(latest[u])
            /\ SameArtifacts(luaFileDict[u], Walk(u, latest[u]))

\* a Dirty file was rebuilt by a handler and is Clean with occurrences, while
\* another file is still Dirty
C1_Witness ==
    /\ resp.op \in RefreshOps /\ resp.before = "dirty" /\ resp.fault = "none"
    /\ ~ luaFileDict[resp.uri].changed
    /\ luaFileDict[resp.uri].identifiers # <<>>
    /\ \E v \in DOMAIN luaFileDict : v # resp.uri /\ luaFileDict[v].changed

\* C2: after list_symbols(F) or find_definition(F, p) on a document whose content
\* parses, the query has completed, F is Clean and the result is the one computed
\* from the walk of F's current content.
C2_QueryAnswersCurrentContent ==
    (resp.op \in QueryOps /\ resp.uri \in DOMAIN documents /\ Parses(documents[resp.uri])) =>
        LET fresh == Walk(resp.uri, documents[resp.uri])
            hits == Covering(fresh.identifiers, resp.pos)
        IN /\ resp.fault = "none"
           /\ FileState(luaFileDict, resp.uri) = "clean"
           /\ resp.op = "list" => resp.value = fresh.symbolList
           /\ resp.op = "def" =>
                resp.value = IF hits = {} THEN <<>>
                             ELSE searchIdent(luaFileDict, keyOrder,
                                              fresh.identifiers[Least(hits)])

\* list_symbols on a Dirty file returned the symbols of the new content
C2_Witness ==
    /\ resp.op = "list" /\ resp.before = "dirty" /\ resp.fault = "none"
    /\ Len(resp.value) = 2

\* C3: right after a content change for an identity that has a File Index, that
\* File Index is Dirty, whatever it was before.
C3_ChangeMarksDirty ==
    (resp.op = "change" /\ resp.before # "absent") =>
        FileState(luaFileDict, resp.uri) = "dirty"

\* a Clean file received a content change
C3_Witness ==
    resp.op = "change" /\ resp.before = "clean" /\ luaFileDict[resp.uri].changed

\* C4: for every file the number of AST walks equals the number of its
\* Dirty -> Clean transitions.
C4_WalksEqualCleanTransitions ==
    \A u \in Uris : surplus[u] = 0

\* refreshFile ran on a file that was already Clean
C4_Witness ==
    /\ resp.op \in RefreshOps /\ resp.before = "clean" /\ resp.fault = "none"
    /\ surplus[resp.uri] = 0

\* C5: when the parse fails during a rebuild of F, F is Dirty afterwards.
C5_FailedParseStaysDirty ==
    resp.fault = "parse" => FileState(luaFileDict, resp.uri) = "dirty"

\* a query on a file that has a File Index and whose content is malformed
C5_Witness ==
    /\ resp.op \in QueryOps /\ resp.fault = "parse" /\ resp.before = "dirty"
    /\ luaFileDict[resp.uri].changed

\* C6: when the parse fails during a rebuild of a file that has a File Index, its
\* occurrences, symbol list and symbol table are the ones it held before the rebuild.
C6_FailedParseKeepsArtifacts ==
    [][(resp'.fault = "parse" /\ resp'.uri \in DOMAIN luaFileDict) =>
          SameArtifacts(luaFileDict'[resp'.uri], luaFileDict[resp'.uri])]_vars

\* C7: list_symbols, find_definition and the save notification never end with the
\* parse failure thrown out of the handler.
C7_ParseFailureDoesNotEscape ==
    resp.op \in RefreshOps => resp.fault # "parse"

\* C8: a query for an identity the server was never given (never opened, never
\* scanned) completes and returns an empty result.
C8_UnknownIdentityReturnsEmpty ==
    (resp.op \in QueryOps /\ resp.uri \notin DOMAIN latest) =>
        (resp.fault = "none" /\ resp.value = <<>>)

RECURSIVE DeclaredLocations(_, _)
\* one location per file, in key order, whose symbol table declares the name
DeclaredLocations(order, name) ==
    IF order = <<>> THEN <<>>
    ELSE LET table == luaFileDict[Head(order)].symbolDict
             rest == DeclaredLocations(Tail(order), name)
         IN IF name \in DOMAIN table THEN <<table[name].location>> \o rest ELSE rest

\* C9: the resolver returns exactly one location for each file whose symbol table
\* declares the name, in insertion order, and nothing for any other file; for a name
\* no file declares it returns the empty sequence.
C9_ResolveReturnsDeclaredLocations ==
    (resp.op = "def" /\ resp.fault = "none" /\ resp.name # "") =>
        resp.value = DeclaredLocations(keyOrder, resp.name)

\* C10: find_definition returns the empty sequence when no occurrence of the file
\* covers the position, and otherwise the resolver's result for the name of the
\* first occurrence, in traversal order, whose range contains the position.
C10_DefinitionOfFirstCoveringOccurrence ==
    (resp.op = "def" /\ resp.fault = "none") =>
        LET identifiers == luaFileDict[resp.uri].identifiers
            hits == Covering(identifiers, resp.pos)
        IN resp.value = IF hits = {} THEN <<>>
                        ELSE searchIdent(luaFileDict, keyOrder, identifiers[Least(hits)])

\* the cursor is on the last column of an occurrence and its declaration is found
C10_Witness ==
    /\ resp.op = "def" /\ resp.fault = "none" /\ resp.value # <<>>
    /\ \E i \in 1 .. Len(luaFileDict[resp.uri].identifiers) :
          luaFileDict[resp.uri].identifiers[i].range.end =
              [line |-> resp.pos.line, character |-> resp.pos.character]

\* the names of the symbols of an ordered symbol sequence
SequenceNames(symbolList) == {symbolList[i].name : i \in 1 .. Len(symbolList)}

\* the last symbol of the sequence that carries the name
LastNamed(symbolList, name) ==
    symbolList[CHOOSE i \in 1 .. Len(symbolList) :
                  /\ symbolList[i].name = name
                  /\ \A j \in i + 1 .. Len(symbolList) : symbolList[j].name # name]

\* C11: in every File Index the name-indexed table has exactly one entry for each
\* name of the ordered symbol sequence and no other entry, that entry is the last
\* symbol of the sequence with that name, and list_symbols returns the whole
\* sequence, both declarations of a name that is declared twice included.
C11_TableHoldsLastOfEachName ==
    /\ \A u \in DOMAIN luaFileDict :
          /\ DOMAIN luaFileDict[u].symbolDict = SequenceNames(luaFileDict[u].symbolList)
          /\ \A n \in DOMAIN luaFileDict[u].symbolDict :
                luaFileDict[u].symbolDict[n] = LastNamed(luaFileDict[u].symbolList, n)
    /\ (resp.op = "list" /\ resp.fault = "none") =>
          resp.value = luaFileDict[resp.uri].symbolList

RECURSIVE NamedDeclarations(_)
RECURSIVE NamedDeclarationsOfAll(_)

NamedDeclarationsOfAll(nodes) ==
    IF nodes = <<>> THEN <<>>
    ELSE NamedDeclarations(Head(nodes)) \o NamedDeclarationsOfAll(Tail(nodes))

\* the function declarations that carry a name, in the order a depth-first
\* pre-order visit of the tree meets them
NamedDeclarations(node) ==
    CASE node.type = "Identifier" -> <<>>
      [] node.type = "FunctionDeclaration" ->
            (IF node.identifier.type = "null" THEN <<>> ELSE <<node>>)
            \o NamedDeclarationsOfAll(node.body)
      [] node.type = "CallStatement" -> NamedDeclarations(node.expression)
      [] node.type = "CallExpression" ->
            NamedDeclarations(node.base) \o NamedDeclarationsOfAll(node.arguments)
      [] OTHER ->
            (IF "identifier" \in DOMAIN node /\ node.identifier.type # "null"
             THEN NamedDeclarations(node.identifier) ELSE <<>>)
            \o (IF "body" \in DOMAIN node THEN NamedDeclarationsOfAll(node.body) ELSE <<>>)

\* the parser's range with its 1-based lines made 0-based
ZeroBased(loc) ==
    [start |-> [line |-> loc.start.line - 1, character |-> loc.start.column],
     end |-> [line |-> loc.end.line - 1, character |-> loc.end.column]]

\* resolve(workspaceIndex, name)
Resolve(name) == searchIdent(luaFileDict, keyOrder, [name |-> name])

Elements(seq) == {seq[i] : i \in 1 .. Len(seq)}

\* C12: for a file whose content parses, list_symbols returns exactly the named
\* function declarations of the tree in traversal order, each a symbol that carries
\* a name (the declared identifier), kind Function, the whole declaration's range
\* with 0-based lines and the file's identity as container; resolve on the name of
\* a listed symbol returns the range of the file's (last) declaration of that name.
C12_ListIsNamedDeclarations ==
    (resp.op = "list" /\ resp.fault = "none") =>
        LET declared == NamedDeclarations(parse(documents[resp.uri]))
        IN /\ Len(resp.value) = Len(declared)
           /\ \A i \in 1 .. Len(resp.value) :
                 /\ resp.value[i].kind = SymbolKindFunction
                 /\ resp.value[i].location =
                       [uri |-> resp.uri, range |-> ZeroBased(declared[i].loc)]
                 /\ resp.value[i].name # UndefinedName
                 /\ declared[i].identifier.type = "Identifier" =>
                       resp.value[i].name = declared[i].identifier.name
                 /\ LastNamed(resp.value, resp.value[i].name).location
                       \in Elements(Resolve(resp.value[i].name))

\* C13 as stated: right after a save notification for an open document F, F's
\* File Index is Dirty (the save only marks it, the rebuild waits for the next query).
C13_SaveOnlyMarksDirty ==
    (resp.op = "save" /\ resp.uri \in DOMAIN documents) =>
        FileState(luaFileDict, resp.uri) = "dirty"

\* C13 amended: a save notification for an open document F runs the rebuild at
\* once, as a query does: right after it F is Clean and holds the walk of the
\* current content when that content parses, and F is Dirty when it does not; a
\* save for a document that is not open leaves F as it was.
C13_SaveRebuildsAtOnce ==
    resp.op = "save" =>
        IF resp.uri \notin DOMAIN documents
        THEN FileState(luaFileDict, resp.uri) = resp.before
        ELSE IF Parses(documents[resp.uri])
        THEN /\ FileState(luaFileDict, resp.uri) = "clean"
             /\ SameArtifacts(luaFileDict[resp.uri], Walk(resp.uri, documents[resp.uri]))
        ELSE FileState(luaFileDict, resp.uri) = "dirty"

\* a save of a Dirty file left it Clean with the occurrences of its content
C13_Witness ==
    /\ resp.op = "save" /\ resp.before = "dirty"
    /\ FileState(luaFileDict, resp.uri) = "clean"
    /\ luaFileDict[resp.uri].identifiers # <<>>

\* C14: a content change for an identity that has no File Index creates no entry,
\* leaves every File Index and the key order of the workspace index as they were,
\* and completes without a fault.
C14_ChangeOfUnknownIsNoOp ==
    [][(resp'.op = "change" /\ resp'.uri \notin DOMAIN luaFileDict) =>
          /\ luaFileDict' = luaFileDict
          /\ keyOrder' = keyOrder
          /\ resp'.fault = "none"]_vars

\* an untracked document changed while another file has a File Index with symbols
C14_Witness ==
    /\ resp.op = "change" /\ resp.before = "absent"
    /\ resp.uri \notin DOMAIN luaFileDict
    /\ \E g \in DOMAIN luaFileDict : luaFileDict[g].symbolList # <<>>

\* C15: no step removes an identity from the workspace index, and the insertion
\* order of the identities it holds never changes: new ones are added at the end.
C15_IndexOnlyGrows ==
    [][/\ DOMAIN luaFileDict \subseteq DOMAIN luaFileDict'
       /\ Len(keyOrder) <= Len(keyOrder')
       /\ SubSeq(keyOrder', 1, Len(keyOrder)) = keyOrder
       /\ Elements(keyOrder') = DOMAIN luaFileDict']_vars

\* a document was closed and both files are still in the workspace index
C15_Witness ==
    /\ resp.op = "close" /\ resp.uri \in DOMAIN luaFileDict
    /\ Len(keyOrder) = 2

\* C16: checkRange is inclusive at both ends: it holds exactly when the position
\* lies between the range's start and end in the lexicographic order on
\* (line, character), so the end position of a range is inside it.
C16_CheckRangeIsClosedInterval ==
    probe.op = "checkRange" => probe.result = Contains(probe.range, probe.pos)

\* the position is the end of a range that is more than one position long
C16_Witness ==
    /\ probe.op = "checkRange" /\ probe.result
    /\ probe.pos = probe.range.end
    /\ probe.range.start.line # probe.range.end.line
    /\ probe.range.end.character < probe.range.start.character

RECURSIVE CalleeThenArguments(_)
RECURSIVE ArgumentsInOrder(_)

ArgumentsInOrder(nodes) ==
    IF nodes = <<>> THEN <<>>
    ELSE CalleeThenArguments(Head(nodes)) \o ArgumentsInOrder(Tail(nodes))

\* the identifier names of a call: those of its base, then those of its arguments
\* from left to right
CalleeThenArguments(node) ==
    IF node.type = "Identifier" THEN <<node.name>>
    ELSE CalleeThenArguments(node.base) \o ArgumentsInOrder(node.arguments)

\* C17: the walk of a call expression records the occurrences of its base before
\* those of its arguments, the arguments from left to right, whatever the nesting
\* depth of the base; f(g) yields exactly f then g.
C17_CalleeBeforeArguments ==
    probe.op = "walk" =>
        /\ Len(probe.identifiers) = Len(CalleeThenArguments(probe.node))
        /\ \A i \in 1 .. Len(probe.identifiers) :
              probe.identifiers[i].name = CalleeThenArguments(probe.node)[i]

\* the call f(g)(g, f): a call as base, two arguments
C17_Witness ==
    /\ probe.op = "walk"
    /\ probe.node.type = "CallExpression"
    /\ probe.node.base.type = "CallExpression"
    /\ Len(probe.node.arguments) = 2
    /\ Len(probe.identifiers) = 4
    /\ <<probe.identifiers[1].name, probe.identifiers[2].name,
         probe.identifiers[3].name, probe.identifiers[4].name>> = <<"f", "g", "g", "f">>

C19_ScanIndexesEveryParsableFile ==
    resp.op = "initialize" =>
        \A i \in 1 .. Len(resp.batch) :
            Parses(resp.batch[i].content) =>
                /\ FileState(luaFileDict, resp.batch[i].uri) = "clean"
                /\ SameArtifacts(luaFileDict[resp.batch[i].uri],
                                 Walk(resp.batch[i].uri, resp.batch[i].content))

\* C20: a query or a save for file F leaves the flag, the occurrences and the
\* symbol tables of every other file as they were, rebuild failed or not
C20_RefreshTouchesOnlyItsFile ==
    [][resp'.op \in RefreshOps =>
        \A g \in DOMAIN luaFileDict :
            g # resp'.uri =>
                /\ g \in DOMAIN luaFileDict'
                /\ luaFileDict'[g] = luaFileDict[g]]_vars

\* a rebuild of one file ran, walked or failed, while another file held artifacts
C20_Witness ==
    /\ resp.op \in RefreshOps
    /\ resp.fault \in {"none", "parse"}
    /\ resp.before = "dirty"
    /\ \E g \in DOMAIN luaFileDict :
          /\ g # resp.uri
          /\ luaFileDict[g].identifiers # <<>>
          /\ luaFileDict[resp.uri].identifiers # luaFileDict[g].identifiers

====
